---- MODULE Spec2Model ----
(***************************************************************************)
(* The volume mount-state machine of pISO (src/pISO/src/vdrive.rs): one    *)
(* VirtualDrive, the kernel resources it acquires (loopback devices,       *)
(* mounts, the gadget export) and the public operations that drive it.     *)
(* Every fallible collaborator call of the source is one step of the       *)
(* model; a handler, once entered, runs to its return before the next      *)
(* handler is entered (the source drives a volume from a single thread).   *)
(***************************************************************************)
EXTENDS Integers, Sequences, FiniteSets, TLC

(* ------------------------------ bounds -------------------------------- *)
\* number of loopback device nodes the kernel offers (/dev/loop0 ..)
MaxLoop == 1
\* number of partitions in the volume's partition table
MaxParts == 2
\* export identifiers the gadget endpoint hands out (1 .. MaxExportId)
MaxExportId == 1
\* background trim tasks alive per mount point
MaxTrim == 1

(* ------------------------- names and paths ---------------------------- *)
\* Names are sequences of one-character strings, so that starts_with and
\* split act on them as they do in the source.
Digit(n) ==
  CASE n = 0 -> "0" [] n = 1 -> "1" [] n = 2 -> "2" [] n = 3 -> "3"
    [] n = 4 -> "4" [] n = 5 -> "5" [] n = 6 -> "6" [] n = 7 -> "7"
    [] n = 8 -> "8" [] OTHER -> "9"

RECURSIVE Decimal(_)
Decimal(n) ==
  IF n < 10 THEN <<Digit(n)>> ELSE Decimal(n \div 10) \o <<Digit(n % 10)>>

\* file name of /dev/loop<d>
LoopName(d) == <<"l", "o", "o", "p">> \o Decimal(d)

\* file name of the partition node /dev/loop<d>p<n> that losetup -P creates
PartDevName(d, n) == LoopName(d) \o <<"p">> \o Decimal(n)

LoopIdx == 0 .. (MaxLoop - 1)
PartIdx == 1 .. MaxParts
LoopDevs == {LoopName(d) : d \in LoopIdx}

\* other device nodes of /dev, never prefixed by a loopback name
ExtraDev == {<<"s", "d", "a">>}

\* a node of /dev that carries the prefix of /dev/loop<d> and no partition
\* number after its "p" (a leftover or hand-made node, not one of losetup)
StrayDevName(d) == LoopName(d) \o <<"p", "x">>

\* str::starts_with
starts_with(s, p) == Len(s) >= Len(p) /\ SubSeq(s, 1, Len(p)) = p

\* dev_name.split("p").last(): the text after the last "p", the whole
\* name when it holds no "p". split always yields at least one piece, so
\* last() is never None.
split_last(s) ==
  LET at == {i \in 1 .. Len(s) : s[i] = "p"}
  IN  IF at = {} THEN s
      ELSE SubSeq(s, (CHOOSE i \in at : \A j \in at : j <= i) + 1, Len(s))

\* The mount point is VDRIVE_MOUNT_ROOT/"<part_name> (partition <part_num>)";
\* part_name is fixed for the volume, so the path is identified by part_num.
mount_point(dev_name) == split_last(dev_name)

MountPoints == {mount_point(PartDevName(d, n)) : d \in LoopIdx, n \in PartIdx}

\* The ISO_FOLDER of each partition's filesystem: its entries, or the
\* marker NoFolder when the partition has no such folder.
NoFolder == {<<"/">>}
IsoFolder(mp) ==
  CASE mp = <<"1">> -> {<<"a">>, <<".", "b">>}
    [] mp = <<"3">> -> {<<"c">>}
    [] OTHER -> NoFolder

\* OsString::into_string succeeds on valid UTF-8; "?" stands for a byte
\* sequence that is not.
into_string_ok(name) == \A i \in 1 .. Len(name) : name[i] # "?"

\* the mount drivers tried in order by mount_partition
mounters == <<"mount", "mount.exfat", "mount.ntfs-3g">>

\* The filesystem of a partition decides which driver can mount it: the
\* partitions of the volume carry, in turn, a filesystem of each driver.
\* A node that is no partition of the volume holds no filesystem: no
\* driver (0) mounts it.
fs_driver(mp) ==
  IF \E n \in PartIdx : Decimal(n) = mp
    THEN CHOOSE k \in 1 .. Len(mounters) :
           \E n \in PartIdx : Decimal(n) = mp /\ k = ((n - 1) % Len(mounters)) + 1
    ELSE 0

(* ------------------------- identity of the volume --------------------- *)
window == 1
WindowIds == {1, 2}
name == "DATA"
VolumeNames == {"DATA", "OTHER"}

(* ------------------------------ state --------------------------------- *)
VARIABLES
  state,        \* VirtualDrive.state : MountState
  persist,      \* VirtualDrive.persist : PersistVDriveState
  auto_fstrim,  \* config.system.auto_fstrim
  attached,     \* kernel: loopback devices attached to the volume's file
  mstack,       \* kernel: per mount point, the stack of mounted devices
  exports,      \* gadget endpoint: active exports of the volume's file
  trims,        \* background fstrim threads alive, per mount point
  fresh,        \* TRUE until the first operation after construction
  pc,           \* position of the running handler, "idle" between handlers
  frames,       \* continuations of the callers of the running function
  result,       \* Result of the function that returned last
  retval,       \* value returned with it
  call,         \* the handler invoked from outside, with the state before it
  trace,        \* collaborator calls and method entries of this handler
  mi,           \* locals of mount_internal
  ui            \* locals of unmount_internal

vars == <<state, persist, auto_fstrim, attached, mstack, exports, trims,
          fresh, pc, frames, result, retval, call, trace, mi, ui>>

NoInfo == [loopback_path |-> <<>>, part_mount_paths |-> <<>>, isos |-> <<>>]
NoId == 0

\* MountState, a sum type: info is meaningful for Internal, id for External
Unmounted == [tag |-> "Unmounted", info |-> NoInfo, id |-> NoId]
Internal(info) == [tag |-> "Internal", info |-> info, id |-> NoId]
External(id) == [tag |-> "External", info |-> NoInfo, id |-> id]

PersistDefault ==
  [external_mount |-> FALSE, readonly |-> FALSE, removable |-> TRUE]

Dispositions ==
  [external_mount : BOOLEAN, readonly : BOOLEAN, removable : BOOLEAN]

\* action::Action, as far as do_action distinguishes it
NoAction == [kind |-> "None", id |-> 0, name |-> ""]
ToggleVDriveMount(id) == [kind |-> "ToggleVDriveMount", id |-> id, name |-> ""]
ToggleDriveReadOnly(n) == [kind |-> "ToggleDriveReadOnly", id |-> 0, name |-> n]
ToggleDriveNonRemovable(n) ==
  [kind |-> "ToggleDriveNonRemovable", id |-> 0, name |-> n]
OtherAction == [kind |-> "Other", id |-> 0, name |-> ""]

Actions ==
  {ToggleVDriveMount(w) : w \in WindowIds}
    \cup {ToggleDriveReadOnly(n) : n \in VolumeNames}
    \cup {ToggleDriveNonRemovable(n) : n \in VolumeNames}
    \cup {OtherAction}

Unit == [info |-> NoInfo, handled |-> FALSE, actions |-> <<>>]
RetInfo(info) == [info |-> info, handled |-> FALSE, actions |-> <<>>]
RetHandled(h, as) == [info |-> NoInfo, handled |-> h, actions |-> as]

Snapshot ==
  [state |-> state, persist |-> persist, attached |-> attached,
   mstack |-> mstack, exports |-> exports, trims |-> trims]
NoSnapshot ==
  [state |-> Unmounted, persist |-> PersistDefault, attached |-> {},
   mstack |-> [m \in MountPoints |-> <<>>], exports |-> {},
   trims |-> [m \in MountPoints |-> 0]]
NoCall == [op |-> "none", arg |-> NoAction, pre |-> NoSnapshot]

MiIdle ==
  [loopback_path |-> <<>>, entries |-> <<>>, entry |-> <<>>, mounter |-> 0,
   mounted_partitions |-> <<>>, isos |-> <<>>, iso_entries |-> <<>>]
UiIdle == [i |-> 0, j |-> 0]

\* one entry of the trace
Ev(op, nm, n, ok) == [op |-> op, name |-> nm, n |-> n, ok |-> ok]
CallEv(f) == Ev(f, <<>>, 0, TRUE)

Init ==
  /\ state = Unmounted
  /\ persist = PersistDefault
  /\ auto_fstrim \in BOOLEAN
  /\ attached = {}
  /\ mstack = [m \in MountPoints |-> <<>>]
  /\ exports = {}
  /\ trims = [m \in MountPoints |-> 0]
  /\ fresh = TRUE
  /\ pc = "idle"
  /\ frames = <<>>
  /\ result = "none"
  /\ retval = Unit
  /\ call = NoCall
  /\ trace = <<>>
  /\ mi = MiIdle
  /\ ui = UiIdle

(* ------------------------- call and return ---------------------------- *)
\* A handler is entered from outside: remember the state it starts from.
Begin(op, arg) ==
  /\ pc = "idle"
  /\ pc' = op
  /\ call' = [op |-> op, arg |-> arg, pre |-> Snapshot]
  /\ fresh' = FALSE
  /\ UNCHANGED <<state, persist, auto_fstrim, attached, mstack, exports,
                 trims, frames, result, retval, trace, mi, ui>>

\* The running function returns r with value v: to its caller's
\* continuation, or out of the handler.
Return(r, v) ==
  /\ result' = r
  /\ retval' = v
  /\ IF frames = <<>>
       THEN pc' = "done" /\ frames' = frames
       ELSE pc' = Head(frames) /\ frames' = Tail(frames)

(* --------------------------- mount_external --------------------------- *)
ExportIds == 1 .. MaxExportId

\* UsbGadget::export_file(path, false, readonly, removable): the export
\* the endpoint records under the identifier it returns
export_file(id, readonly, removable) ==
  [id |-> id, cdrom |-> FALSE, readonly |-> readonly, removable |-> removable]

\* mutant of mount_external: the Internal arm exports like the Unmounted one
mount_external_FromInternal ==
  /\ pc = "mount_external"
  /\ trace' = Append(trace, CallEv("mount_external"))
  /\ CASE state.tag = "External" ->
            Return("ok", Unit)
       [] OTHER ->
            /\ pc' = "mount_external_91"
            /\ UNCHANGED <<frames, result, retval>>
  /\ UNCHANGED <<state, persist, auto_fstrim, attached, mstack, exports,
                 trims, fresh, call, mi, ui>>

\* match self.state at the head of mount_external
mount_external ==
  /\ pc = "mount_external"
  /\ trace' = Append(trace, CallEv("mount_external"))
  /\ CASE state.tag = "External" ->
            Return("ok", Unit)
       [] state.tag = "Unmounted" ->
            /\ pc' = "mount_external_91"
            /\ UNCHANGED <<frames, result, retval>>
       [] OTHER ->
            Return("err", Unit)
  /\ UNCHANGED <<state, persist, auto_fstrim, attached, mstack, exports,
                 trims, fresh, call, mi, ui>>

\* mutant of mount_external_91: the mode is set before the export is known
\* to have succeeded
mount_external_91_EarlyAssign ==
  /\ pc = "mount_external_91"
  /\ \/ /\ trace' = Append(trace, Ev("usb.lock", <<>>, 0, FALSE))
        /\ Return("err", Unit)
        /\ UNCHANGED <<state, persist, exports>>
     \/ /\ trace' = trace \o <<Ev("usb.lock", <<>>, 0, TRUE),
                               Ev("export_file", <<>>, 0, FALSE)>>
        /\ state' = External(NoId)
        /\ Return("err", Unit)
        /\ UNCHANGED <<persist, exports>>
     \/ \E id \in ExportIds \ {e.id : e \in exports} :
          /\ trace' = trace \o <<Ev("usb.lock", <<>>, 0, TRUE),
                                 Ev("export_file", <<>>, id, TRUE)>>
          /\ exports' = exports
               \cup {export_file(id, persist.readonly, persist.removable)}
          /\ state' = External(id)
          /\ persist' = [persist EXCEPT !.external_mount = TRUE]
          /\ Return("ok", Unit)
  /\ UNCHANGED <<auto_fstrim, attached, mstack, trims, fresh, call, mi, ui>>

\* self.usb.lock()?.export_file(..).chain_err(..)?, then the two
\* assignments of the Unmounted arm
mount_external_91 ==
  /\ pc = "mount_external_91"
  /\ \/ /\ trace' = Append(trace, Ev("usb.lock", <<>>, 0, FALSE))
        /\ Return("err", Unit)
        /\ UNCHANGED <<state, persist, exports>>
     \/ /\ trace' = trace \o <<Ev("usb.lock", <<>>, 0, TRUE),
                               Ev("export_file", <<>>, 0, FALSE)>>
        /\ Return("err", Unit)
        /\ UNCHANGED <<state, persist, exports>>
     \/ \E id \in ExportIds \ {e.id : e \in exports} :
          /\ trace' = trace \o <<Ev("usb.lock", <<>>, 0, TRUE),
                                 Ev("export_file", <<>>, id, TRUE)>>
          /\ exports' = exports
               \cup {export_file(id, persist.readonly, persist.removable)}
          /\ state' = External(id)
          /\ persist' = [persist EXCEPT !.external_mount = TRUE]
          /\ Return("ok", Unit)
  /\ UNCHANGED <<auto_fstrim, attached, mstack, trims, fresh, call, mi, ui>>

(* -------------------------- unmount_external -------------------------- *)
\* match self.state at the head of unmount_external; the Unmounted arm
\* falls through to the two assignments at the end
unmount_external ==
  /\ pc = "unmount_external"
  /\ trace' = Append(trace, CallEv("unmount_external"))
  /\ CASE state.tag = "Unmounted" ->
            /\ state' = Unmounted
            /\ persist' = [persist EXCEPT !.external_mount = FALSE]
            /\ Return("ok", Unit)
       [] state.tag = "Internal" ->
            /\ Return("err", Unit)
            /\ UNCHANGED <<state, persist>>
       [] OTHER ->
            /\ pc' = "unmount_external_117"
            /\ UNCHANGED <<state, persist, frames, result, retval>>
  /\ UNCHANGED <<auto_fstrim, attached, mstack, exports, trims, fresh, call,
                 mi, ui>>

\* unmount_external_117 clearing the external flag before the endpoint has
\* answered
unmount_external_117_EarlyClear ==
  /\ pc = "unmount_external_117"
  /\ \/ /\ trace' = Append(trace, Ev("usb.lock", <<>>, 0, FALSE))
        /\ Return("err", Unit)
        /\ UNCHANGED <<state, persist, exports>>
     \/ /\ trace' = trace \o <<Ev("usb.lock", <<>>, 0, TRUE),
                               Ev("unexport_file", <<>>, state.id, FALSE)>>
        /\ Return("err", Unit)
        /\ persist' = [persist EXCEPT !.external_mount = FALSE]
        /\ UNCHANGED <<state, exports>>
     \/ /\ \E e \in exports : e.id = state.id
        /\ trace' = trace \o <<Ev("usb.lock", <<>>, 0, TRUE),
                               Ev("unexport_file", <<>>, state.id, TRUE)>>
        /\ exports' = {e \in exports : e.id # state.id}
        /\ state' = Unmounted
        /\ persist' = [persist EXCEPT !.external_mount = FALSE]
        /\ Return("ok", Unit)
  /\ UNCHANGED <<auto_fstrim, attached, mstack, trims, fresh, call, mi, ui>>

\* self.usb.lock()?.unexport_file(id).chain_err(..)?, then the two
\* assignments. The endpoint can release only an export it holds.
unmount_external_117 ==
  /\ pc = "unmount_external_117"
  /\ \/ /\ trace' = Append(trace, Ev("usb.lock", <<>>, 0, FALSE))
        /\ Return("err", Unit)
        /\ UNCHANGED <<state, persist, exports>>
     \/ /\ trace' = trace \o <<Ev("usb.lock", <<>>, 0, TRUE),
                               Ev("unexport_file", <<>>, state.id, FALSE)>>
        /\ Return("err", Unit)
        /\ UNCHANGED <<state, persist, exports>>
     \/ /\ \E e \in exports : e.id = state.id
        /\ trace' = trace \o <<Ev("usb.lock", <<>>, 0, TRUE),
                               Ev("unexport_file", <<>>, state.id, TRUE)>>
        /\ exports' = {e \in exports : e.id # state.id}
        /\ state' = Unmounted
        /\ persist' = [persist EXCEPT !.external_mount = FALSE]
        /\ Return("ok", Unit)
  /\ UNCHANGED <<auto_fstrim, attached, mstack, trims, fresh, call, mi, ui>>

(* ------------------------------ unmount ------------------------------- *)
\* unmount sending the Unmounted arm through unmount_external
unmount_ViaExternal ==
  /\ pc = "unmount"
  /\ trace' = Append(trace, CallEv("unmount"))
  /\ IF state.tag = "Internal"
       THEN pc' = "unmount_internal"
       ELSE pc' = "unmount_external"
  /\ UNCHANGED <<frames, result, retval>>
  /\ UNCHANGED <<state, persist, auto_fstrim, attached, mstack, exports,
                 trims, fresh, call, mi, ui>>

\* match self.state: the two unmount operations are tail calls
unmount ==
  /\ pc = "unmount"
  /\ trace' = Append(trace, CallEv("unmount"))
  /\ CASE state.tag = "Unmounted" ->
            Return("ok", Unit)
       [] state.tag = "Internal" ->
            /\ pc' = "unmount_internal"
            /\ UNCHANGED <<frames, result, retval>>
       [] OTHER ->
            /\ pc' = "unmount_external"
            /\ UNCHANGED <<frames, result, retval>>
  /\ UNCHANGED <<state, persist, auto_fstrim, attached, mstack, exports,
                 trims, fresh, call, mi, ui>>

(* --------------------------- mount_internal --------------------------- *)
\* the orders in which a directory of the given entries may be enumerated
Orderings(S) ==
  {f \in [1 .. Cardinality(S) -> S] : \A i, j \in DOMAIN f : f[i] = f[j] => i = j}

\* /dev: every loopback node, and behind each attached one the partition
\* nodes that losetup -P made for it, the partitions in the order pi
RECURSIVE DevBlocks(_, _, _)
DevBlocks(d, att, pi) ==
  IF d >= MaxLoop THEN <<>>
  ELSE <<LoopName(d)>>
         \o (IF LoopName(d) \in att
               THEN [i \in 1 .. MaxParts |-> PartDevName(d, pi[i])]
               ELSE <<>>)
         \o DevBlocks(d + 1, att, pi)

\* the stray nodes behind the attached loopback devices
RECURSIVE StrayBlocks(_, _)
StrayBlocks(d, att) ==
  IF d >= MaxLoop THEN <<>>
  ELSE (IF LoopName(d) \in att THEN <<StrayDevName(d)>> ELSE <<>>)
         \o StrayBlocks(d + 1, att)

\* fs::read_dir("/dev"): the enumeration order is the operating system's,
\* and /dev may or may not hold stray nodes
DevListings(att) ==
  LET base(pi) == <<CHOOSE x \in ExtraDev : TRUE>> \o DevBlocks(0, att, pi)
  IN  {base(pi) \o odd : pi \in Orderings(PartIdx),
                         odd \in {<<>>, StrayBlocks(0, att)}}

\* losetup -f: the first loopback device that is not in use
FreeLoops == LoopDevs \ attached
first_free ==
  LoopName(CHOOSE d \in LoopIdx :
             /\ LoopName(d) \in FreeLoops
             /\ \A e \in LoopIdx : LoopName(e) \in FreeLoops => d <= e)

\* the entry names a partition of the loopback device: it starts with the
\* loopback name and is not the base device itself
is_partition_entry(entry, loopback_name) ==
  starts_with(entry, loopback_name) /\ entry # loopback_name

\* the hidden test answering no for every name
is_hidden_Never(nm) == FALSE

\* iso.file_name() .. starts_with(".")
is_hidden(nm) == starts_with(nm, <<".">>)

\* iso::Iso::new(disp, usb, iso.path()): the handle of one nested image
Iso(mp, nm) == [part |-> mp, name |-> nm]

\* an error return of mount_internal drops its locals
MiErr ==
  /\ Return("err", Unit)
  /\ mi' = MiIdle
  /\ UNCHANGED <<state, attached, mstack>>

\* mutant of mount_internal: an Internal volume is mounted again
mount_internal_Remount ==
  /\ pc = "mount_internal"
  /\ trace' = Append(trace, CallEv("mount_internal"))
  /\ CASE state.tag \in {"Unmounted", "Internal"} ->
            /\ pc' = "mount_internal_163"
            /\ UNCHANGED <<frames, result, retval>>
       [] OTHER ->
            Return("err", Unit)
  /\ UNCHANGED <<state, persist, auto_fstrim, attached, mstack, exports,
                 trims, fresh, call, mi, ui>>

\* match self.state at the head of mount_internal
mount_internal ==
  /\ pc = "mount_internal"
  /\ trace' = Append(trace, CallEv("mount_internal"))
  /\ CASE state.tag = "Unmounted" ->
            /\ pc' = "mount_internal_163"
            /\ UNCHANGED <<frames, result, retval>>
       [] state.tag = "Internal" ->
            Return("ok", RetInfo(state.info))
       [] OTHER ->
            Return("err", Unit)
  /\ UNCHANGED <<state, persist, auto_fstrim, attached, mstack, exports,
                 trims, fresh, call, mi, ui>>

\* utils::run_check_output("losetup", &["-f"])?
mount_internal_163 ==
  /\ pc = "mount_internal_163"
  /\ \/ /\ trace' = Append(trace, Ev("losetup -f", <<>>, 0, FALSE))
        /\ MiErr
     \/ /\ FreeLoops # {}
        /\ trace' = Append(trace, Ev("losetup -f", first_free, 0, TRUE))
        /\ mi' = [mi EXCEPT !.loopback_path = first_free]
        /\ pc' = "mount_internal_170"
        /\ UNCHANGED <<state, attached, mstack, frames, result, retval>>
  /\ UNCHANGED <<persist, auto_fstrim, exports, trims, fresh, call, ui>>

\* utils::run_check_output("losetup", &["-fP", volume_path])?
mount_internal_170 ==
  /\ pc = "mount_internal_170"
  /\ \/ /\ trace' = Append(trace, Ev("losetup -fP", <<>>, 0, FALSE))
        /\ MiErr
     \/ /\ FreeLoops # {}
        /\ trace' = Append(trace, Ev("losetup -fP", first_free, 0, TRUE))
        /\ attached' = attached \cup {first_free}
        /\ pc' = "mount_internal_174"
        /\ UNCHANGED <<state, mstack, mi, frames, result, retval>>
  /\ UNCHANGED <<persist, auto_fstrim, exports, trims, fresh, call, ui>>

\* fs::read_dir("/dev")?
mount_internal_174 ==
  /\ pc = "mount_internal_174"
  /\ \/ /\ trace' = Append(trace, Ev("read_dir /dev", <<>>, 0, FALSE))
        /\ MiErr
     \/ \E listing \in DevListings(attached) :
          /\ trace' = Append(trace, Ev("read_dir /dev", <<>>, 0, TRUE))
          /\ mi' = [mi EXCEPT !.entries = listing]
          /\ pc' = "mount_internal_175"
          /\ UNCHANGED <<state, attached, mstack, frames, result, retval>>
  /\ UNCHANGED <<persist, auto_fstrim, exports, trims, fresh, call, ui>>

\* the MountInfo recorded at the end of the loop over /dev
new_info ==
  [loopback_path |-> mi.loopback_path,
   part_mount_paths |-> mi.mounted_partitions,
   isos |-> mi.isos]

\* head of the loop over /dev: let entry = entry?, the two name tests, the
\* partition number; after the last entry, the assignment of
\* MountState::Internal and the return of the stored info
mount_internal_175 ==
  /\ pc = "mount_internal_175"
  /\ IF mi.entries = <<>>
       THEN /\ state' = Internal(new_info)
            /\ Return("ok", RetInfo(new_info))
            /\ mi' = MiIdle
            /\ trace' = trace
            /\ UNCHANGED <<attached, mstack>>
       ELSE \/ /\ trace' = Append(trace, Ev("entry", Head(mi.entries), 0, FALSE))
               /\ MiErr
            \/ /\ trace' = trace
               /\ IF is_partition_entry(Head(mi.entries), mi.loopback_path)
                    THEN /\ mi' = [mi EXCEPT !.entry = Head(mi.entries),
                                             !.entries = Tail(mi.entries)]
                         /\ pc' = "mount_internal_195"
                    ELSE /\ mi' = [mi EXCEPT !.entries = Tail(mi.entries)]
                         /\ pc' = "mount_internal_175"
               /\ UNCHANGED <<state, attached, mstack, frames, result, retval>>
  /\ UNCHANGED <<persist, auto_fstrim, exports, trims, fresh, call, ui>>

\* fs::create_dir_all(&mount_point)?
mount_internal_195 ==
  /\ pc = "mount_internal_195"
  /\ \/ /\ trace' = Append(trace,
                      Ev("create_dir_all", mount_point(mi.entry), 0, FALSE))
        /\ MiErr
     \/ /\ trace' = Append(trace,
                      Ev("create_dir_all", mount_point(mi.entry), 0, TRUE))
        /\ mi' = [mi EXCEPT !.mounter = 1]
        /\ pc' = "mount_partition"
        /\ UNCHANGED <<state, attached, mstack, frames, result, retval>>
  /\ UNCHANGED <<persist, auto_fstrim, exports, trims, fresh, call, ui>>

\* where mount_internal goes on after a partition has been mounted: into
\* the ISO_FOLDER when isopath.exists(), else to the next entry of /dev
after_mount(mp) ==
  IF IsoFolder(mp) # NoFolder THEN "mount_internal_202" ELSE "mount_internal_175"

\* mutant of mount_partition: the mount point is pushed although every
\* mounter failed
mount_partition_PushOnFail ==
  /\ pc = "mount_partition"
  /\ LET mp == mount_point(mi.entry)
     IN  \/ /\ mi.mounter = fs_driver(mp)
            /\ trace' = Append(trace, Ev(mounters[mi.mounter], mp, 0, TRUE))
            /\ mstack' = [mstack EXCEPT ![mp] = Append(@, mi.entry)]
            /\ mi' = [mi EXCEPT !.mounted_partitions = Append(@, mp),
                                !.mounter = 0]
            /\ pc' = after_mount(mp)
         \/ /\ trace' = Append(trace, Ev(mounters[mi.mounter], mp, 0, FALSE))
            /\ mstack' = mstack
            /\ IF mi.mounter < Len(mounters)
                 THEN /\ mi' = [mi EXCEPT !.mounter = @ + 1]
                      /\ pc' = "mount_partition"
                 ELSE /\ mi' = [mi EXCEPT !.mounted_partitions = Append(@, mp),
                                          !.mounter = 0]
                      /\ pc' = "mount_internal_175"
  /\ UNCHANGED <<state, persist, auto_fstrim, attached, exports, trims, fresh,
                 frames, result, retval, call, ui>>

\* mount_partition, one turn of its loop over the mounters, and the match
\* on its result in mount_internal: Ok pushes the mount point, Err (every
\* mounter failed) is printed and the partition is skipped. Only the
\* driver of the partition's filesystem can succeed, and it may fail too.
mount_partition ==
  /\ pc = "mount_partition"
  /\ LET mp == mount_point(mi.entry)
     IN  \/ /\ mi.mounter = fs_driver(mp)
            /\ trace' = Append(trace, Ev(mounters[mi.mounter], mp, 0, TRUE))
            /\ mstack' = [mstack EXCEPT ![mp] = Append(@, mi.entry)]
            /\ mi' = [mi EXCEPT !.mounted_partitions = Append(@, mp),
                                !.mounter = 0]
            /\ pc' = after_mount(mp)
         \/ /\ trace' = Append(trace, Ev(mounters[mi.mounter], mp, 0, FALSE))
            /\ mstack' = mstack
            /\ IF mi.mounter < Len(mounters)
                 THEN /\ mi' = [mi EXCEPT !.mounter = @ + 1]
                      /\ pc' = "mount_partition"
                 ELSE /\ mi' = [mi EXCEPT !.mounter = 0]
                      /\ pc' = "mount_internal_175"
  /\ UNCHANGED <<state, persist, auto_fstrim, attached, exports, trims, fresh,
                 frames, result, retval, call, ui>>

\* fs::read_dir(isopath)?
mount_internal_202 ==
  /\ pc = "mount_internal_202"
  /\ \/ /\ trace' = Append(trace,
                      Ev("read_dir ISOS", mount_point(mi.entry), 0, FALSE))
        /\ MiErr
     \/ \E listing \in Orderings(IsoFolder(mount_point(mi.entry))) :
          /\ trace' = Append(trace,
                        Ev("read_dir ISOS", mount_point(mi.entry), 0, TRUE))
          /\ mi' = [mi EXCEPT !.iso_entries = listing]
          /\ pc' = "mount_internal_203"
          /\ UNCHANGED <<state, attached, mstack, frames, result, retval>>
  /\ UNCHANGED <<persist, auto_fstrim, exports, trims, fresh, call, ui>>

\* one turn of the loop over the ISO_FOLDER: let iso = iso?, the file name
\* as a String, the hidden test, iso::Iso::new(..)?
mount_internal_203 ==
  /\ pc = "mount_internal_203"
  /\ IF mi.iso_entries = <<>>
       THEN /\ pc' = "mount_internal_175"
            /\ trace' = trace
            /\ UNCHANGED <<state, attached, mstack, mi, frames, result, retval>>
       ELSE LET nm == Head(mi.iso_entries)
                mp == mount_point(mi.entry)
            IN  \/ /\ trace' = Append(trace, Ev("iso entry", nm, 0, FALSE))
                   /\ MiErr
                \/ /\ ~into_string_ok(nm)
                   /\ trace' = Append(trace, Ev("into_string", nm, 0, FALSE))
                   /\ MiErr
                \/ /\ into_string_ok(nm)
                   /\ is_hidden(nm)
                   /\ trace' = trace
                   /\ mi' = [mi EXCEPT !.iso_entries = Tail(@)]
                   /\ pc' = "mount_internal_203"
                   /\ UNCHANGED <<state, attached, mstack, frames, result, retval>>
                \/ /\ into_string_ok(nm)
                   /\ ~is_hidden(nm)
                   /\ trace' = Append(trace, Ev("Iso::new", nm, 0, FALSE))
                   /\ MiErr
                \/ /\ into_string_ok(nm)
                   /\ ~is_hidden(nm)
                   /\ trace' = Append(trace, Ev("Iso::new", nm, 0, TRUE))
                   /\ mi' = [mi EXCEPT !.iso_entries = Tail(@),
                                       !.isos = Append(@, Iso(mp, nm))]
                   /\ pc' = "mount_internal_203"
                   /\ UNCHANGED <<state, attached, mstack, frames, result, retval>>
  /\ UNCHANGED <<persist, auto_fstrim, exports, trims, fresh, call, ui>>

(* -------------------------- unmount_internal -------------------------- *)
\* an error return of unmount_internal: the ? leaves self.state as it is
UiErr ==
  /\ Return("err", Unit)
  /\ ui' = UiIdle
  /\ UNCHANGED <<state, attached, mstack>>

\* mutant of unmount_internal: the External arm falls through to the
\* assignment like the Unmounted one
unmount_internal_FromExternal ==
  /\ pc = "unmount_internal"
  /\ trace' = Append(trace, CallEv("unmount_internal"))
  /\ CASE state.tag = "Internal" ->
            /\ pc' = "unmount_internal_244"
            /\ ui' = [i |-> 1, j |-> 1]
            /\ UNCHANGED <<state, frames, result, retval>>
       [] OTHER ->
            /\ state' = Unmounted
            /\ Return("ok", Unit)
            /\ ui' = ui
  /\ UNCHANGED <<persist, auto_fstrim, attached, mstack, exports, trims,
                 fresh, call, mi>>

\* match self.state at the head of unmount_internal; the Unmounted arm
\* falls through to the assignment at the end
unmount_internal ==
  /\ pc = "unmount_internal"
  /\ trace' = Append(trace, CallEv("unmount_internal"))
  /\ CASE state.tag = "Unmounted" ->
            /\ state' = Unmounted
            /\ Return("ok", Unit)
            /\ ui' = ui
       [] state.tag = "Internal" ->
            /\ pc' = "unmount_internal_244"
            /\ ui' = [i |-> 1, j |-> 1]
            /\ UNCHANGED <<state, frames, result, retval>>
       [] OTHER ->
            /\ Return("err", Unit)
            /\ UNCHANGED <<state, ui>>
  /\ UNCHANGED <<persist, auto_fstrim, attached, mstack, exports, trims,
                 fresh, call, mi>>

\* unmount_internal_244 going on to the partitions with the nested images
\* still mounted
unmount_internal_244_SkipIsos ==
  /\ pc = "unmount_internal_244"
  /\ pc' = "unmount_internal_248"
  /\ UNCHANGED <<state, attached, mstack, frames, result, retval, trace, ui>>
  /\ UNCHANGED <<persist, auto_fstrim, exports, trims, fresh, call, mi>>

\* for iso in info.isos.iter_mut() { iso.unmount()?; }
unmount_internal_244 ==
  /\ pc = "unmount_internal_244"
  /\ IF ui.i <= Len(state.info.isos)
       THEN LET iso == state.info.isos[ui.i]
            IN  \/ /\ trace' = Append(trace, Ev("iso.unmount", iso.name, 0, FALSE))
                   /\ UiErr
                \/ /\ trace' = Append(trace, Ev("iso.unmount", iso.name, 0, TRUE))
                   /\ ui' = [ui EXCEPT !.i = @ + 1]
                   /\ pc' = "unmount_internal_244"
                   /\ UNCHANGED <<state, attached, mstack, frames, result, retval>>
       ELSE /\ pc' = "unmount_internal_248"
            /\ UNCHANGED <<state, attached, mstack, frames, result, retval,
                           trace, ui>>
  /\ UNCHANGED <<persist, auto_fstrim, exports, trims, fresh, call, mi>>

\* umount <path> detaches the mount on top of the path's stack; it fails
\* when nothing is mounted there
umount(stack, part) == [stack EXCEPT ![part] = SubSeq(@, 1, Len(@) - 1)]

\* utils::run_check_output("umount", &[&part])? for the next tracked path
unmount_internal_248 ==
  /\ pc = "unmount_internal_248"
  /\ IF ui.j <= Len(state.info.part_mount_paths)
       THEN LET part == state.info.part_mount_paths[ui.j]
            IN  \/ /\ trace' = Append(trace, Ev("umount", part, 0, FALSE))
                   /\ UiErr
                \/ /\ mstack[part] # <<>>
                   /\ trace' = Append(trace, Ev("umount", part, 0, TRUE))
                   /\ mstack' = umount(mstack, part)
                   /\ pc' = "unmount_internal_249"
                   /\ UNCHANGED <<state, attached, ui, frames, result, retval>>
       ELSE /\ pc' = "unmount_internal_251"
            /\ UNCHANGED <<state, attached, mstack, frames, result, retval,
                           trace, ui>>
  /\ UNCHANGED <<persist, auto_fstrim, exports, trims, fresh, call, mi>>

\* fs::remove_dir_all(&part)?: a directory that is still a mount point
\* cannot be removed
unmount_internal_249 ==
  /\ pc = "unmount_internal_249"
  /\ LET part == state.info.part_mount_paths[ui.j]
     IN  \/ /\ trace' = Append(trace, Ev("remove_dir_all", part, 0, FALSE))
            /\ UiErr
         \/ /\ mstack[part] = <<>>
            /\ trace' = Append(trace, Ev("remove_dir_all", part, 0, TRUE))
            /\ ui' = [ui EXCEPT !.j = @ + 1]
            /\ pc' = "unmount_internal_248"
            /\ UNCHANGED <<state, attached, mstack, frames, result, retval>>
  /\ UNCHANGED <<persist, auto_fstrim, exports, trims, fresh, call, mi>>

\* utils::run_check_output("losetup", &["-d", loopback_path])?, then
\* self.state = MountState::Unmounted. Only an attached device detaches.
unmount_internal_251 ==
  /\ pc = "unmount_internal_251"
  /\ LET dev == state.info.loopback_path
     IN  \/ /\ trace' = Append(trace, Ev("losetup -d", dev, 0, FALSE))
            /\ UiErr
         \/ /\ dev \in attached
            /\ trace' = Append(trace, Ev("losetup -d", dev, 0, TRUE))
            /\ attached' = attached \ {dev}
            /\ state' = Unmounted
            /\ ui' = UiIdle
            /\ mstack' = mstack
            /\ Return("ok", Unit)
  /\ UNCHANGED <<persist, auto_fstrim, exports, trims, fresh, call, mi>>

(* ---------------------------- toggle_mount ---------------------------- *)
\* match self.state at the head of toggle_mount
toggle_mount ==
  /\ pc = "toggle_mount"
  /\ trace' = Append(trace, CallEv("toggle_mount"))
  /\ CASE state.tag = "Unmounted" ->
            /\ pc' = "mount_external"
            /\ frames' = frames
       [] state.tag = "Internal" ->
            /\ pc' = "unmount_internal"
            /\ frames' = <<"toggle_mount_266">> \o frames
       [] OTHER ->
            /\ pc' = "unmount_external"
            /\ frames' = <<"toggle_mount_270">> \o frames
  /\ UNCHANGED <<state, persist, auto_fstrim, attached, mstack, exports,
                 trims, fresh, result, retval, call, mi, ui>>

\* mutant of toggle_mount_266: the toggle ends after the unmount
toggle_mount_266_NoMount ==
  /\ pc = "toggle_mount_266"
  /\ IF result = "err" THEN Return("err", Unit) ELSE Return("ok", Unit)
  /\ UNCHANGED <<state, persist, auto_fstrim, attached, mstack, exports,
                 trims, fresh, call, trace, mi, ui>>

\* self.unmount_internal()?; self.mount_external()
toggle_mount_266 ==
  /\ pc = "toggle_mount_266"
  /\ IF result = "err"
       THEN Return("err", Unit)
       ELSE /\ pc' = "mount_external"
            /\ UNCHANGED <<frames, result, retval>>
  /\ UNCHANGED <<state, persist, auto_fstrim, attached, mstack, exports,
                 trims, fresh, call, trace, mi, ui>>

\* self.unmount_external()?; self.mount_internal(disp)
toggle_mount_270 ==
  /\ pc = "toggle_mount_270"
  /\ IF result = "err"
       THEN Return("err", Unit)
       ELSE /\ pc' = "mount_internal"
            /\ frames' = <<"toggle_mount_271">> \o frames
            /\ UNCHANGED <<result, retval>>
  /\ UNCHANGED <<state, persist, auto_fstrim, attached, mstack, exports,
                 trims, fresh, call, trace, mi, ui>>

\* self.mount_internal(disp)?; Ok(())
toggle_mount_271 ==
  /\ pc = "toggle_mount_271"
  /\ IF result = "err" THEN Return("err", Unit) ELSE Return("ok", Unit)
  /\ UNCHANGED <<state, persist, auto_fstrim, attached, mstack, exports,
                 trims, fresh, call, trace, mi, ui>>

(* ------------------------------ on_load ------------------------------- *)
\* mutant of on_load: the test of the external flag is inverted
on_load_Inverted ==
  /\ pc = "on_load"
  /\ trace' = Append(trace, CallEv("on_load"))
  /\ IF ~persist.external_mount
       THEN /\ pc' = "mount_external"
            /\ frames' = frames
       ELSE /\ pc' = "mount_internal"
            /\ frames' = <<"on_load_349">> \o frames
  /\ UNCHANGED <<state, persist, auto_fstrim, attached, mstack, exports,
                 trims, fresh, result, retval, call, mi, ui>>

\* if self.persist.external_mount { self.mount_external() } else { .. }
on_load ==
  /\ pc = "on_load"
  /\ trace' = Append(trace, CallEv("on_load"))
  /\ IF persist.external_mount
       THEN /\ pc' = "mount_external"
            /\ frames' = frames
       ELSE /\ pc' = "mount_internal"
            /\ frames' = <<"on_load_349">> \o frames
  /\ UNCHANGED <<state, persist, auto_fstrim, attached, mstack, exports,
                 trims, fresh, result, retval, call, mi, ui>>

\* one thread::spawn per path of part_mount_paths
RECURSIVE spawn_trims(_, _)
spawn_trims(t, paths) ==
  IF paths = <<>> THEN t
  ELSE spawn_trims([t EXCEPT ![Head(paths)] = @ + 1], Tail(paths))

\* on_load_349 starting the trims whatever auto_fstrim says
on_load_349_AlwaysTrim ==
  /\ pc = "on_load_349"
  /\ IF result = "err"
       THEN /\ Return("err", Unit)
            /\ UNCHANGED <<trims, trace>>
       ELSE /\ trims' = spawn_trims(trims, state.info.part_mount_paths)
            /\ trace' = trace \o
                 [i \in 1 .. Len(state.info.part_mount_paths) |->
                    Ev("thread::spawn", state.info.part_mount_paths[i], 0, TRUE)]
            /\ Return("ok", Unit)
  /\ UNCHANGED <<state, persist, auto_fstrim, attached, mstack, exports,
                 fresh, call, mi, ui>>

\* self.mount_internal(disp)?; the fstrim threads when auto_fstrim is
\* set; Ok(())
on_load_349 ==
  /\ pc = "on_load_349"
  /\ IF result = "err"
       THEN /\ Return("err", Unit)
            /\ UNCHANGED <<trims, trace>>
       ELSE /\ IF auto_fstrim /\ state.tag = "Internal"
                 THEN /\ trims' = spawn_trims(trims, state.info.part_mount_paths)
                      /\ trace' = trace \o
                           [i \in 1 .. Len(state.info.part_mount_paths) |->
                              Ev("thread::spawn", state.info.part_mount_paths[i],
                                 0, TRUE)]
                 ELSE UNCHANGED <<trims, trace>>
            /\ Return("ok", Unit)
  /\ UNCHANGED <<state, persist, auto_fstrim, attached, mstack, exports,
                 fresh, call, mi, ui>>

\* a spawned thread ends: run_check_output("fstrim", ..) returned, and its
\* result is dropped
TrimExit ==
  /\ \E m \in MountPoints :
       /\ trims[m] > 0
       /\ trims' = [trims EXCEPT ![m] = @ - 1]
  /\ UNCHANGED <<state, persist, auto_fstrim, attached, mstack, exports,
                 fresh, pc, frames, result, retval, call, trace, mi, ui>>

(* ------------------------- do_action, on_event ------------------------ *)
\* mutant of matches_readonly: the volume name is not compared
matches_readonly_AnyName(a) == a.kind = "ToggleDriveReadOnly"

\* the guards of the three handled arms of do_action
matches_toggle_mount(a) == a.kind = "ToggleVDriveMount" /\ a.id = window
matches_readonly(a) == a.kind = "ToggleDriveReadOnly" /\ a.name = name
matches_removable(a) == a.kind = "ToggleDriveNonRemovable" /\ a.name = name

\* do_action whose read-only arm flips the removable flag as well
do_action_FlipBoth ==
  /\ pc = "do_action"
  /\ trace' = Append(trace, CallEv("do_action"))
  /\ CASE matches_toggle_mount(call.arg) ->
            /\ pc' = "toggle_mount"
            /\ frames' = <<"do_action_318">> \o frames
            /\ UNCHANGED <<persist, result, retval>>
       [] matches_readonly(call.arg) ->
            /\ persist' = [persist EXCEPT !.readonly = ~@, !.removable = ~@]
            /\ Return("ok", RetHandled(TRUE, <<>>))
       [] matches_removable(call.arg) ->
            /\ persist' = [persist EXCEPT !.removable = ~@]
            /\ Return("ok", RetHandled(TRUE, <<>>))
       [] OTHER ->
            /\ persist' = persist
            /\ Return("ok", RetHandled(FALSE, <<>>))
  /\ UNCHANGED <<state, auto_fstrim, attached, mstack, exports, trims, fresh,
                 call, mi, ui>>

\* match *action
do_action ==
  /\ pc = "do_action"
  /\ trace' = Append(trace, CallEv("do_action"))
  /\ CASE matches_toggle_mount(call.arg) ->
            /\ pc' = "toggle_mount"
            /\ frames' = <<"do_action_318">> \o frames
            /\ UNCHANGED <<persist, result, retval>>
       [] matches_readonly(call.arg) ->
            /\ persist' = [persist EXCEPT !.readonly = ~@]
            /\ Return("ok", RetHandled(TRUE, <<>>))
       [] matches_removable(call.arg) ->
            /\ persist' = [persist EXCEPT !.removable = ~@]
            /\ Return("ok", RetHandled(TRUE, <<>>))
       [] OTHER ->
            /\ persist' = persist
            /\ Return("ok", RetHandled(FALSE, <<>>))
  /\ UNCHANGED <<state, auto_fstrim, attached, mstack, exports, trims, fresh,
                 call, mi, ui>>

\* self.toggle_mount(disp)?; Ok((true, vec![]))
do_action_318 ==
  /\ pc = "do_action_318"
  /\ IF result = "err"
       THEN Return("err", Unit)
       ELSE Return("ok", RetHandled(TRUE, <<>>))
  /\ UNCHANGED <<state, persist, auto_fstrim, attached, mstack, exports,
                 trims, fresh, call, trace, mi, ui>>

\* controller::Event, as far as on_event distinguishes it
Select == [kind |-> "Select", id |-> 0, name |-> ""]
OtherEvent == [kind |-> "OtherEvent", id |-> 0, name |-> ""]
Events == {Select, OtherEvent}

\* match *event
on_event ==
  /\ pc = "on_event"
  /\ trace' = Append(trace, CallEv("on_event"))
  /\ IF call.arg = Select
       THEN Return("ok", RetHandled(TRUE, <<ToggleVDriveMount(window)>>))
       ELSE Return("ok", RetHandled(FALSE, <<>>))
  /\ UNCHANGED <<state, persist, auto_fstrim, attached, mstack, exports,
                 trims, fresh, call, mi, ui>>

(* ----------------------- render and the widget tree ------------------- *)
\* Render::render: the glyphs blitted beside the label
render(st, focus) ==
  [label |-> name, square |-> (st.tag = "External"), arrow |-> focus]

\* Widget::children
children(st) == IF st.tag = "Internal" THEN st.info.isos ELSE <<>>

(* ------------------------ the callers of the volume ------------------- *)
Invoke_mount_external == Begin("mount_external", NoAction)
Invoke_unmount_external == Begin("unmount_external", NoAction)
Invoke_mount_internal == Begin("mount_internal", NoAction)
Invoke_unmount_internal == Begin("unmount_internal", NoAction)
Invoke_unmount == Begin("unmount", NoAction)
Invoke_toggle_mount == Begin("toggle_mount", NoAction)
Invoke_on_load ==
  /\ \A m \in MountPoints : trims[m] < MaxTrim
  /\ Begin("on_load", NoAction)
Invoke_do_action == \E a \in Actions : Begin("do_action", a)
Invoke_on_event == \E e \in Events : Begin("on_event", e)

\* Stateful::state_mut: the persisted disposition is written into the
\* freshly built volume, before anything else is asked of it
state_mut ==
  /\ pc = "idle"
  /\ fresh
  /\ \E p \in Dispositions : persist' = p
  /\ fresh' = FALSE
  /\ UNCHANGED <<state, auto_fstrim, attached, mstack, exports, trims, pc,
                 frames, result, retval, call, trace, mi, ui>>

\* the handler has returned to its caller
Complete ==
  /\ pc = "done"
  /\ pc' = "idle"
  /\ result' = "none"
  /\ retval' = Unit
  /\ call' = NoCall
  /\ trace' = <<>>
  /\ UNCHANGED <<state, persist, auto_fstrim, attached, mstack, exports,
                 trims, fresh, frames, mi, ui>>

Next ==
  \/ Invoke_mount_external
  \/ Invoke_unmount_external
  \/ Invoke_mount_internal
  \/ Invoke_unmount_internal
  \/ Invoke_unmount
  \/ Invoke_toggle_mount
  \/ Invoke_on_load
  \/ Invoke_do_action
  \/ Invoke_on_event
  \/ state_mut
  \/ Complete
  \/ TrimExit
  \/ mount_external
  \/ mount_external_91
  \/ unmount_external
  \/ unmount_external_117
  \/ unmount
  \/ mount_internal
  \/ mount_internal_163
  \/ mount_internal_170
  \/ mount_internal_174
  \/ mount_internal_175
  \/ mount_internal_195
  \/ mount_partition
  \/ mount_internal_202
  \/ mount_internal_203
  \/ unmount_internal
  \/ unmount_internal_244
  \/ unmount_internal_248
  \/ unmount_internal_249
  \/ unmount_internal_251
  \/ toggle_mount
  \/ toggle_mount_266
  \/ toggle_mount_270
  \/ toggle_mount_271
  \/ on_load
  \/ on_load_349
  \/ do_action
  \/ do_action_318
  \/ on_event

Spec == Init /\ [][Next]_vars

(* ============================ properties ============================== *)
MethodNames ==
  {"mount_external", "unmount_external", "unmount", "mount_internal",
   "unmount_internal", "toggle_mount", "on_load", "do_action", "on_event"}

\* the handler invoked from outside has returned
Returned(op) == pc = "done" /\ call.op = op

\* the collaborator calls (endpoint, commands, filesystem) of this handler
CollaboratorCalls == {i \in DOMAIN trace : trace[i].op \notin MethodNames}
Called(f) == \E i \in DOMAIN trace : trace[i].op = f

HoldsInternal == attached # {} \/ \E m \in MountPoints : mstack[m] # <<>>
HoldsExport == exports # {}

KernelUntouched ==
  /\ attached = call.pre.attached
  /\ mstack = call.pre.mstack
  /\ exports = call.pre.exports

\* what the render path and the widget tree show of a mode
Observed(st) == [square |-> render(st, FALSE).square, children |-> children(st)]

\* the partition devices of a loopback device that are mounted somewhere
MountedOf(dev) ==
  {e \in UNION {{mstack[m][i] : i \in DOMAIN mstack[m]} : m \in MountPoints} :
     starts_with(e, dev)}

\* toggle_mount, called directly or through a matching ToggleVDriveMount
ToggleReturned ==
  \/ Returned("toggle_mount")
  \/ Returned("do_action") /\ call.arg = ToggleVDriveMount(window)

\* C1: between operations a volume never holds internal resources (an
\* attached loopback device or mounted partitions) and an active export
\* at the same time.
C1_NeverInternalAndExport ==
  pc \in {"idle", "done"} => ~(HoldsInternal /\ HoldsExport)

\* C2: between operations, a volume whose mode is Unmounted holds no
\* loopback device, no mounted partition and no export.
C2_UnmountedHoldsNothing ==
  (pc \in {"idle", "done"} /\ state.tag = "Unmounted")
    => (attached = {} /\ (\A m \in MountPoints : mstack[m] = <<>>)
        /\ exports = {})

\* C3: no step takes the mode from Internal to External or back; an
\* export is requested only in mode Unmounted, and in a toggle that
\* started Internal only once the loopback device of that mode is detached
\* and none of its partitions is mounted; a loopback device is attached
\* only in mode Unmounted with no export active.
C3_Step ==
  /\ ~(state.tag = "Internal" /\ state'.tag = "External")
  /\ ~(state.tag = "External" /\ state'.tag = "Internal")
  /\ (exports' # exports /\ exports \subseteq exports')
       => /\ state.tag = "Unmounted"
          /\ (call.pre.state.tag = "Internal"
                => /\ call.pre.state.info.loopback_path \notin attached
                   /\ MountedOf(call.pre.state.info.loopback_path) = {}
                   /\ Called("unmount_internal"))
  /\ (attached' # attached /\ attached \subseteq attached')
       => /\ state.tag = "Unmounted"
          /\ exports = {}
          /\ (call.pre.state.tag = "External" => Called("unmount_external"))
C3_ThroughUnmounted == [][C3_Step]_vars

C3_Witness ==
  /\ ToggleReturned
  /\ result = "ok"
  /\ call.pre.state.tag = "Internal"
  /\ call.pre.state.info.part_mount_paths # <<>>
  /\ state.tag = "External"

\* C4: each of the four cross-mode requests returns an error, makes no
\* collaborator call and leaves the mode, the disposition and the kernel
\* resources as they were.
CrossMode ==
  \/ call.op \in {"mount_external", "unmount_external"}
       /\ call.pre.state.tag = "Internal"
  \/ call.op \in {"mount_internal", "unmount_internal"}
       /\ call.pre.state.tag = "External"
C4_CrossModeRejected ==
  (pc = "done" /\ CrossMode)
    => /\ result = "err"
       /\ CollaboratorCalls = {}
       /\ state = call.pre.state
       /\ persist = call.pre.persist
       /\ KernelUntouched

C4_Witness ==
  /\ Returned("unmount_internal")
  /\ call.pre.state.tag = "External"
  /\ result = "err"

\* C5: mount_internal on a volume that is already Internal returns the
\* recorded MountInfo, makes no collaborator call and changes nothing.
C5_MountInternalIdempotent ==
  (Returned("mount_internal") /\ call.pre.state.tag = "Internal")
    => /\ result = "ok"
       /\ retval.info = call.pre.state.info
       /\ CollaboratorCalls = {}
       /\ state = call.pre.state
       /\ persist = call.pre.persist
       /\ KernelUntouched

C5_Witness ==
  /\ Returned("mount_internal")
  /\ call.pre.state.tag = "Internal"
  /\ call.pre.state.info.part_mount_paths # <<>>
  /\ call.pre.state.info.isos # <<>>
  /\ result = "ok"

\* C6: a toggle_mount that returns success ends External when it started
\* Unmounted or Internal, and Internal when it started External.
C6_ToggleTarget ==
  (ToggleReturned /\ result = "ok")
    => state.tag = (IF call.pre.state.tag = "External" THEN "Internal"
                    ELSE "External")

C6_Witness ==
  /\ ToggleReturned
  /\ result = "ok"
  /\ call.pre.state.tag = "External"
  /\ state.tag = "Internal"

\* C7 as stated: whenever toggle_mount returns an error, the render path
\* and the widget tree observe the same mode as before the call.
C7_FailedToggleUnchanged ==
  (ToggleReturned /\ result = "err")
    => Observed(state) = Observed(call.pre.state)

\* the toggle got past its first step: it entered the mount that follows
\* the unmount
SecondStepEntered ==
  \/ call.pre.state.tag = "Internal" /\ Called("mount_external")
  \/ call.pre.state.tag = "External" /\ Called("mount_internal")

\* C7 amended: a toggle_mount that fails in its first step leaves the mode
\* as it was; one that fails in the mount after a successful unmount
\* leaves the volume Unmounted, showing neither marker nor children.
C7_FailedToggleUnchangedOrUnmounted ==
  (ToggleReturned /\ result = "err")
    => IF SecondStepEntered
         THEN state = Unmounted /\ Observed(state) = Observed(Unmounted)
         ELSE state = call.pre.state

C7_Witness ==
  /\ ToggleReturned
  /\ result = "err"
  /\ call.pre.state.tag = "Internal"
  /\ call.pre.state.info.isos # <<>>
  /\ state = Unmounted

\* the mount points whose mount succeeded in this handler, in order
RECURSIVE MountedIn(_)
MountedIn(t) ==
  IF t = <<>> THEN <<>>
  ELSE IF Head(t).op \in {mounters[k] : k \in DOMAIN mounters} /\ Head(t).ok
         THEN <<Head(t).name>> \o MountedIn(Tail(t))
         ELSE MountedIn(Tail(t))

\* the mount points at which every mounter was tried and failed
FailedEveryDriver ==
  {m \in MountPoints :
     \A k \in DOMAIN mounters :
       \E i \in DOMAIN trace :
         trace[i].op = mounters[k] /\ trace[i].name = m /\ ~trace[i].ok}

\* C8: in a mount_internal from Unmounted a partition that no driver can
\* mount does not abort the call (an error return never follows a failed
\* mounter); on success the mode is Internal and part_mount_paths holds
\* exactly the mount points whose mount succeeded, none that failed.
C8_FailedPartitionSkipped ==
  (Returned("mount_internal") /\ call.pre.state.tag = "Unmounted")
    => /\ result = "err"
            => trace[Len(trace)].op \notin {mounters[k] : k \in DOMAIN mounters}
       /\ result = "ok"
            => /\ state.tag = "Internal"
               /\ state.info.part_mount_paths = MountedIn(trace)
               /\ retval.info = state.info
               /\ \A m \in FailedEveryDriver :
                    \A i \in DOMAIN state.info.part_mount_paths :
                      state.info.part_mount_paths[i] # m

C8_Witness ==
  /\ Returned("mount_internal")
  /\ call.pre.state.tag = "Unmounted"
  /\ result = "ok"
  /\ FailedEveryDriver = {<<"2">>}
  /\ state.info.part_mount_paths = << <<"1">> >>

\* C9: on_load follows the persisted external flag alone: set, it calls
\* mount_external and never mount_internal, and a successful load ends
\* External; clear, it calls mount_internal and never mount_external, and
\* a successful load ends Internal.
C9_LoadFollowsFlag ==
  Returned("on_load")
    => IF call.pre.persist.external_mount
         THEN /\ Called("mount_external")
              /\ ~Called("mount_internal")
              /\ result = "ok" => state.tag = "External"
         ELSE /\ Called("mount_internal")
              /\ ~Called("mount_external")
              /\ result = "ok" => state.tag = "Internal"

C9_Witness ==
  /\ Returned("on_load")
  /\ call.pre.persist.external_mount
  /\ call.pre.state.tag = "Unmounted"
  /\ result = "ok"
  /\ state.tag = "External"

\* C10: do_action with an action addressed to another window or another
\* volume, or with any other action, reports unhandled with no follow-on
\* action, makes no collaborator call and changes nothing of the volume.
Foreign(a) ==
  \/ a.kind = "ToggleVDriveMount" /\ a.id # window
  \/ a.kind \in {"ToggleDriveReadOnly", "ToggleDriveNonRemovable"}
       /\ a.name # name
  \/ a.kind = "Other"
C10_ForeignActionIgnored ==
  (Returned("do_action") /\ Foreign(call.arg))
    => /\ result = "ok"
       /\ retval.handled = FALSE
       /\ retval.actions = <<>>
       /\ CollaboratorCalls = {}
       /\ state = call.pre.state
       /\ persist = call.pre.persist
       /\ KernelUntouched

C10_Witness ==
  /\ Returned("do_action")
  /\ call.arg = ToggleDriveReadOnly("OTHER")
  /\ state.tag = "External"
  /\ retval.handled = FALSE

\* C11: unmount() in mode Unmounted returns success, makes no collaborator
\* call, stays Unmounted and leaves the disposition, the external flag
\* included, as it was; a successful unmount() from Internal or External
\* ends Unmounted.
C11_UnmountFromAnyMode ==
  Returned("unmount")
    => /\ call.pre.state.tag = "Unmounted"
            => /\ result = "ok"
               /\ CollaboratorCalls = {}
               /\ state = Unmounted
               /\ persist = call.pre.persist
               /\ KernelUntouched
       /\ result = "ok" => state = Unmounted

C11_Witness ==
  /\ Returned("unmount")
  /\ call.pre.state.tag = "Unmounted"
  /\ call.pre.persist.external_mount
  /\ result = "ok"
  /\ persist.external_mount

\* C12: no handle of a recorded MountInfo names an entry whose file name
\* starts with '.', in whatever order the ISO_FOLDER was enumerated; after
\* a successful mount_internal every other entry of the ISO_FOLDER of a
\* mounted partition has a handle.
DotName(nm) == nm # <<>> /\ nm[1] = "."
C12_HiddenNeverHandled ==
  /\ state.tag = "Internal"
       => \A i \in DOMAIN state.info.isos : ~DotName(state.info.isos[i].name)
  /\ (Returned("mount_internal") /\ call.pre.state.tag = "Unmounted"
        /\ result = "ok")
       => \A k \in DOMAIN state.info.part_mount_paths :
            LET mp == state.info.part_mount_paths[k]
            IN  IsoFolder(mp) # NoFolder
                  => \A nm \in IsoFolder(mp) :
                       ~DotName(nm)
                         => \E i \in DOMAIN state.info.isos :
                              state.info.isos[i] = Iso(mp, nm)

C12_Witness ==
  /\ Returned("mount_internal")
  /\ call.pre.state.tag = "Unmounted"
  /\ result = "ok"
  /\ \E nm \in IsoFolder(<<"1">>) : DotName(nm)
  /\ state.info.isos = <<Iso(<<"1">>, <<"a">>)>>

\* C13: a primitive (mount_external, unmount_external, mount_internal,
\* unmount_internal) that returns an error leaves the mode, the recorded
\* MountInfo or export identifier and the disposition as they were before
\* the call, and none of its steps shows another mode on the way: the only
\* step of a primitive that changes any of them is its successful return.
Primitives ==
  {"mount_external", "unmount_external", "mount_internal", "unmount_internal"}
PrimitiveSteps ==
  {"mount_external", "mount_external_91",
   "unmount_external", "unmount_external_117",
   "mount_internal", "mount_internal_163", "mount_internal_170",
   "mount_internal_174", "mount_internal_175", "mount_internal_195",
   "mount_partition", "mount_internal_202", "mount_internal_203",
   "unmount_internal", "unmount_internal_244", "unmount_internal_248",
   "unmount_internal_249", "unmount_internal_251"}
C13_Step ==
  /\ (pc \in PrimitiveSteps /\ (state' # state \/ persist' # persist))
       => /\ result' = "ok"
          /\ pc' \notin PrimitiveSteps
  /\ (pc \in PrimitiveSteps /\ call.op \in Primitives)
       => /\ state = call.pre.state
          /\ persist = call.pre.persist
  /\ (pc = "done" /\ call.op \in Primitives /\ result = "err")
       => /\ state = call.pre.state
          /\ persist = call.pre.persist
C13_PrimitiveAtomic == [][C13_Step]_vars

C13_Witness ==
  /\ Returned("unmount_internal")
  /\ result = "err"
  /\ call.pre.state.tag = "Internal"
  /\ mstack # call.pre.mstack
  /\ state = call.pre.state

\* C14: within one unmount_internal every tracked nested image is
\* unmounted before the first partition umount; every tracked partition is
\* unmounted and its directory removed before the loopback device is
\* detached; the mode leaves Internal only once the detach has succeeded.
At(op) == {i \in DOMAIN trace : trace[i].op = op}
Succeeded(op) ==
  LET evs == SelectSeq(trace, LAMBDA e : e.op = op /\ e.ok)
  IN  [i \in DOMAIN evs |-> evs[i].name]
C14_TeardownOrder ==
  LET info == call.pre.state.info
      parts == At("umount") \cup At("remove_dir_all")
  IN  /\ \A i \in At("iso.unmount") : \A j \in parts \cup At("losetup -d") : i < j
      /\ \A i \in parts : \A j \in At("losetup -d") : i < j
      /\ At("umount") # {}
           => Succeeded("iso.unmount")
                = [i \in DOMAIN info.isos |-> info.isos[i].name]
      /\ At("losetup -d") # {}
           => /\ Succeeded("iso.unmount")
                   = [i \in DOMAIN info.isos |-> info.isos[i].name]
              /\ Succeeded("umount") = info.part_mount_paths
              /\ Succeeded("remove_dir_all") = info.part_mount_paths
      /\ (pc # "idle" /\ call.pre.state.tag = "Internal"
            /\ state.tag # "Internal")
           => Succeeded("losetup -d") = <<info.loopback_path>>

C14_Witness ==
  /\ Returned("unmount_internal")
  /\ result = "ok"
  /\ call.pre.state.tag = "Internal"
  /\ call.pre.state.info.isos # <<>>
  /\ Len(call.pre.state.info.part_mount_paths) = 2
  /\ state = Unmounted

\* C15: in every state whose mode is External the persisted external flag
\* is true, and in every state whose mode is Internal it is false, for any
\* loaded disposition and any sequence of operations.
C15_FlagTracksMode ==
  /\ state.tag = "External" => persist.external_mount
  /\ state.tag = "Internal" => ~persist.external_mount

\* C16: an on_load that mounts internally with auto_fstrim set starts
\* exactly one trim per path of part_mount_paths and returns success in
\* the step that starts them, without waiting; a trim that ends (or never
\* does) changes nothing of the result, the mode or the disposition; no
\* trim is started when the load mounts externally, fails, or the flag is
\* off.
TrimsStarted == Succeeded("thread::spawn")
C16_Step ==
  /\ Returned("on_load")
       => /\ IF ~call.pre.persist.external_mount /\ auto_fstrim
                  /\ state.tag = "Internal"
               THEN TrimsStarted = state.info.part_mount_paths
               ELSE TrimsStarted = <<>>
          /\ ~call.pre.persist.external_mount
               => (result = "ok" <=> state.tag = "Internal")
  /\ Len(trace') > Len(trace) /\ trace'[Len(trace')].op = "thread::spawn"
       => /\ pc' = "done"
          /\ result' = "ok"
          /\ \A m \in MountPoints :
               trims'[m] = trims[m]
                 + Cardinality({i \in DOMAIN state.info.part_mount_paths :
                                  state.info.part_mount_paths[i] = m})
  /\ (\E m \in MountPoints : trims'[m] < trims[m])
       => UNCHANGED <<state, persist, result, retval, pc, attached, mstack,
                      exports>>
C16_TrimsBestEffort == [][C16_Step]_vars

C16_Witness ==
  /\ Returned("on_load")
  /\ result = "ok"
  /\ auto_fstrim
  /\ Len(state.info.part_mount_paths) = 2
  /\ TrimsStarted = state.info.part_mount_paths
  /\ \A i \in DOMAIN state.info.part_mount_paths :
       trims[state.info.part_mount_paths[i]] = 1

\* C17: an entry of /dev under the loopback prefix whose name ends in no
\* partition number makes mount_internal fail where the number is taken:
\* no such entry is carried on to the mount folder, and none is given a
\* folder or handed to a mount driver.
IsNumber(s) ==
  /\ s # <<>>
  /\ \A i \in DOMAIN s :
       s[i] \in {"0", "1", "2", "3", "4", "5", "6", "7", "8", "9"}
C17_UnparseableIsHardError ==
  /\ mi.entry # <<>> => IsNumber(split_last(mi.entry))
  /\ \A i \in DOMAIN trace :
       (trace[i].op = "create_dir_all"
          \/ \E k \in DOMAIN mounters : trace[i].op = mounters[k])
         => IsNumber(trace[i].name)

\* C18: a handled ToggleDriveReadOnly (ToggleDriveNonRemovable) flips the
\* read-only (removable) flag and nothing else, in every mode: the mode,
\* the other two flags, the stored export identifier and the exports the
\* endpoint holds, with the flags they were made with, stay as they were;
\* the same toggle applied to the result gives back the disposition it
\* started from.
C18_FlagToggleIsolated ==
  LET pre == call.pre.persist
  IN  /\ (Returned("do_action") /\ call.arg = ToggleDriveReadOnly(name))
           => /\ result = "ok" /\ retval.handled
              /\ persist = [external_mount |-> pre.external_mount,
                            readonly |-> ~pre.readonly,
                            removable |-> pre.removable]
              /\ [persist EXCEPT !.readonly = ~@] = pre
              /\ state = call.pre.state
              /\ KernelUntouched
              /\ CollaboratorCalls = {}
      /\ (Returned("do_action") /\ call.arg = ToggleDriveNonRemovable(name))
           => /\ result = "ok" /\ retval.handled
              /\ persist = [external_mount |-> pre.external_mount,
                            readonly |-> pre.readonly,
                            removable |-> ~pre.removable]
              /\ [persist EXCEPT !.removable = ~@] = pre
              /\ state = call.pre.state
              /\ KernelUntouched
              /\ CollaboratorCalls = {}

C18_Witness ==
  /\ Returned("do_action")
  /\ call.arg = ToggleDriveReadOnly(name)
  /\ state.tag = "External"
  /\ persist.readonly
  /\ \E e \in exports : e.id = state.id /\ ~e.readonly

\* C19: between operations, in mode Internal the recorded MountInfo
\* matches the kernel: the paths of part_mount_paths are exactly the mount
\* points where a partition of the recorded loopback device is mounted, and
\* that loopback device is attached; after a part-way failure of
\* unmount_internal too.
PathsOf(info) ==
  {info.part_mount_paths[i] : i \in DOMAIN info.part_mount_paths}
MountedPathsOf(dev) ==
  {m \in MountPoints :
     \E i \in DOMAIN mstack[m] : is_partition_entry(mstack[m][i], dev)}
C19_BookkeepingMatches ==
  (pc \in {"idle", "done"} /\ state.tag = "Internal")
    => /\ PathsOf(state.info) = MountedPathsOf(state.info.loopback_path)
       /\ state.info.loopback_path \in attached

\* C20: a volume can always be brought back to Unmounted by repeating
\* unmount(), umount failing only on a path where nothing is mounted. That
\* needs every reachable state to have a way back: none may be Wedged,
\* Internal with a tracked path that the teardown has still to umount and
\* where nothing is mounted. A Wedged state is never left
\* (C20_WedgedForever): each unmount() from it fails at that umount with
\* the mode still Internal.
StillToUmount(k) ==
  CASE pc = "unmount_internal_248" -> k >= ui.j
    [] pc = "unmount_internal_249" -> k > ui.j
    [] pc = "unmount_internal_251" -> FALSE
    [] OTHER -> TRUE
Wedged ==
  /\ state.tag = "Internal"
  /\ \E k \in DOMAIN state.info.part_mount_paths :
       /\ mstack[state.info.part_mount_paths[k]] = <<>>
       /\ StillToUmount(k)
C20_WedgedForever == [][Wedged => Wedged']_vars
C20_AlwaysRecoverable == ~Wedged

====
